---- MODULE Spec2Model ----
(***************************************************************************)
(* Transparent log (Merkle tree) of JPMoresmau/transparentlog:             *)
(*   - the tree geometry, proof positions and verification of base.rs,     *)
(*   - the in-memory log and the in-memory client of memory.rs,            *)
(*   - check_record / get_proofs, the verifying client protocol,           *)
(*   - the file log of file.rs and the RocksDB log of transparentlog_rocksdb*)
(* Hashes are symbolic and injective: a leaf hash is <<"L", record>>, an   *)
(* interior hash is <<"N", left, right>>, the empty string is <<>>.        *)
(***************************************************************************)
EXTENDS Integers, Sequences, FiniteSets, TLC

VARIABLES data, hashes, latest, cache, op, ret, filelog, rocksdb

vars == <<data, hashes, latest, cache, op, ret, filelog, rocksdb>>

\* ------------------------------------------------------------------ bounds
MaxLog == 5        \* appends per behaviour of the client specifications
MaxTree == 15      \* appends per behaviour of the proof specification
MaxFork == 2       \* size of the log a saved witness is taken from
MaxClientLog == 13 \* appends per behaviour of the 13-record client specification
MaxStore == 8      \* appends per behaviour of the storage specification
MaxSize == 33      \* largest tree size the geometry functions are applied to
MaxFault == 3      \* appends per log and behaviour of the fault specification
MaxFaultLevel == 1 \* highest tree level at which a backend call is made to fail

\* largest record id a caller claims: one past every log
MaxId == MaxLog + 1

\* ------------------------------------------------------------------ hashing
\* String::new(): the empty digest, root of the empty tree
Empty == <<>>

\* hash(record): SHA-256 of the encoded record, modelled injectively
hash(record) == <<"L", record>>

\* Sha256 of format!("{}{}", h1, h2), modelled injectively
hash_two_strings(h1, h2) == <<"N", h1, h2>>

\* a digest that no record and no node of any log hashes to
Bogus == <<"X", 0>>

\* LogTreePosition{level, index}
Pos(level, index) == [level |-> level, index |-> index]

\* LogTree{size, hash}
LogTree(size, h) == [size |-> size, hash |-> h]

\* Record{id, hash}
Record(id, h) == [id |-> id, hash |-> h]

\* ------------------------------------------------------------------ geometry
\* the loop of tree_sizes stopping at the first size that is not above 1
RECURSIVE tree_sizes_loop_to_one(_, _, _, _)
tree_sizes_loop_to_one(v, sz, height, size) ==
    IF sz > 1
    THEN LET sz2 == sz \div 2
         IN  tree_sizes_loop_to_one(Append(v, sz2), sz2, height * 2, size)
    ELSE v

RECURSIVE tree_sizes_loop(_, _, _, _)
tree_sizes_loop(v, sz, height, size) ==
    IF height < size /\ sz > 0
    THEN LET sz2 == IF sz = 1 THEN 0 ELSE sz \div 2
         IN  tree_sizes_loop(Append(v, sz2), sz2, height * 2, size)
    ELSE v

\* tree_sizes that takes a tree of one record for an empty one
tree_sizes_from_one(size) ==
    IF size > 1 THEN tree_sizes_loop(<<size>>, size, 1, size) ELSE <<>>

\* tree_sizes without the push of the size itself before the loop
tree_sizes_no_base(size) ==
    IF size > 0 THEN tree_sizes_loop(<<>>, size, 1, size) ELSE <<>>

\* level sizes of a tree of the given size; sizes[level + 1] is level's size
tree_sizes(size) ==
    IF size > 0 THEN tree_sizes_loop(<<size>>, size, 1, size) ELSE <<>>

\* the while loop of proof_step without the test against the level size
proof_descend_unchecked(new_level, new_index, sizes) ==
    IF new_level > 0 THEN {Pos(new_level - 1, new_index * 2)} ELSE {}

\* the while loop of proof_step: first defined node under a missing sibling
RECURSIVE proof_descend(_, _, _)
proof_descend(new_level, new_index, sizes) ==
    IF new_level > 0
    THEN LET l == new_level - 1
             i == new_index * 2
         IN  IF i < sizes[l + 1] THEN {Pos(l, i)} ELSE proof_descend(l, i, sizes)
    ELSE {}

\* proof_step that goes up a level without halving the index
RECURSIVE proof_step_no_halving(_, _, _, _)
proof_step_no_halving(level, index, size, sizes) ==
    LET here == IF index % 2 = 0
                THEN IF index + 1 < size
                     THEN {Pos(level, index + 1)}
                     ELSE proof_descend(level, index + 1, sizes)
                ELSE {Pos(level, index - 1)}
    IN  here \cup (IF level < Len(sizes) - 1
                   THEN proof_step_no_halving(level + 1, index, size \div 2, sizes)
                   ELSE {})

\* proof_step that takes the sibling on either side of the node
RECURSIVE proof_step_both_siblings(_, _, _, _)
proof_step_both_siblings(level, index, size, sizes) ==
    LET here == (IF index + 1 < size THEN {Pos(level, index + 1)} ELSE {})
                    \cup (IF index > 0 THEN {Pos(level, index - 1)} ELSE {})
    IN  here \cup (IF level < Len(sizes) - 1
                   THEN proof_step_both_siblings(level + 1, index \div 2, size \div 2, sizes)
                   ELSE {})

RECURSIVE proof_step(_, _, _, _)
proof_step(level, index, size, sizes) ==
    LET here == IF index % 2 = 0
                THEN IF index + 1 < size
                     THEN {Pos(level, index + 1)}
                     ELSE proof_descend(level, index + 1, sizes)
                ELSE {Pos(level, index - 1)}
    IN  here \cup (IF level < Len(sizes) - 1
                   THEN proof_step(level + 1, index \div 2, size \div 2, sizes)
                   ELSE {})

proof_positions(index, size) ==
    LET sizes == tree_sizes(size)
    IN  IF sizes = <<>> THEN {} ELSE proof_step(0, index, size, sizes)

\* the for loop of prefix_proof_positions without the test that leaves
\* the top level out
RECURSIVE prefix_frontier_with_top(_, _)
prefix_frontier_with_top(ix, sizes2) ==
    IF ix >= Len(sizes2) THEN {}
    ELSE IF sizes2[ix + 1] % 2 = 1
         THEN {Pos(ix, sizes2[ix + 1] - 1)}
         ELSE prefix_frontier_with_top(ix + 1, sizes2)

\* the for loop of prefix_proof_positions from level ix on
RECURSIVE prefix_frontier(_, _)
prefix_frontier(ix, sizes2) ==
    IF ix >= Len(sizes2) THEN {}
    ELSE IF ix < Len(sizes2) - 1 /\ sizes2[ix + 1] % 2 = 1
         THEN {Pos(ix, sizes2[ix + 1] - 1)}
         ELSE prefix_frontier(ix + 1, sizes2)

\* the two assert! of prefix_proof_positions
prefix_precondition(size1, size2) == size1 > 0 /\ size1 < size2

prefix_proof_positions(size1, size2) ==
    proof_positions(size1, size2) \cup proof_positions(size1 - 1, size2)
        \cup prefix_frontier(0, tree_sizes(size2))

\* ------------------------------------------------------------------ verification
\* HashMap::insert / extend: entries of b win
MapExtend(a, b) ==
    [p \in DOMAIN a \cup DOMAIN b |-> IF p \in DOMAIN b THEN b[p] ELSE a[p]]

EmptyMap == [p \in {} |-> Empty]

RECURSIVE calc_hash(_, _, _)
calc_hash(position, proofs, sizes) ==
    IF position.index < sizes[position.level + 1] /\ position \in DOMAIN proofs
    THEN proofs[position]
    ELSE IF position.level > 0
         THEN LET new_index == position.index * 2
                  h1 == calc_hash(Pos(position.level - 1, new_index), proofs, sizes)
                  h2 == calc_hash(Pos(position.level - 1, new_index + 1), proofs, sizes)
              IN  IF h2 = Empty THEN h1 ELSE hash_two_strings(h1, h2)
         ELSE Empty

\* verify that takes the empty string for the root of a tree of size 0
verify_empty_root(tree, record, proofs) ==
    LET sizes == tree_sizes(tree.size)
    IN  IF sizes = <<>> THEN tree.hash = Empty
        ELSE LET proofs2 == MapExtend(proofs, [p \in {Pos(0, record.id)} |-> record.hash])
             IN  tree.hash = calc_hash(Pos(Len(sizes) - 1, 0), proofs2, sizes)

verify(tree, record, proofs) ==
    LET sizes == tree_sizes(tree.size)
    IN  IF sizes = <<>> THEN FALSE
        ELSE LET proofs2 == MapExtend(proofs, [p \in {Pos(0, record.id)} |-> record.hash])
             IN  tree.hash = calc_hash(Pos(Len(sizes) - 1, 0), proofs2, sizes)

\* verify_tree without the comparison with the witness's root
verify_tree_unchecked(tree, proofs) == tree_sizes(tree.size) # <<>>

verify_tree(tree, proofs) ==
    LET sizes == tree_sizes(tree.size)
    IN  IF sizes = <<>> THEN FALSE
        ELSE tree.hash = calc_hash(Pos(Len(sizes) - 1, 0), proofs, sizes)

\* ------------------------------------------------------------------ in-memory log
\* InMemoryLog{data, hashes}; hashes[level + 1][index + 1] is node (level, index)
InMemoryLog(d, hs) == [data |-> d, hashes |-> hs]

\* InMemoryLog::default()
EmptyLog == InMemoryLog(<<>>, <<>>)

\* push_hash hashing the new hash before the one stored before it
RECURSIVE push_hash_swapped(_, _, _)
push_hash_swapped(hs, level, h) ==
    LET hs1 == IF Len(hs) <= level THEN Append(hs, <<>>) ELSE hs
        v   == Append(hs1[level + 1], h)
        hs2 == [hs1 EXCEPT ![level + 1] = v]
        l   == Len(v)
    IN  IF l % 2 = 0
        THEN push_hash_swapped(hs2, level + 1, hash_two_strings(v[l], v[l - 1]))
        ELSE hs2

\* push_hash that carries a parent upwards from every level of two or more
\* hashes, completed pair or not
RECURSIVE push_hash_eager(_, _, _)
push_hash_eager(hs, level, h) ==
    LET hs1 == IF Len(hs) <= level THEN Append(hs, <<>>) ELSE hs
        v   == Append(hs1[level + 1], h)
        hs2 == [hs1 EXCEPT ![level + 1] = v]
        l   == Len(v)
    IN  IF l >= 2
        THEN push_hash_eager(hs2, level + 1, hash_two_strings(v[l - 1], v[l]))
        ELSE hs2

\* push_hash that stores the parent of a completed pair and stops there
push_hash_no_carry(hs, level, h) ==
    LET hs1 == IF Len(hs) <= level THEN Append(hs, <<>>) ELSE hs
        v   == Append(hs1[level + 1], h)
        hs2 == [hs1 EXCEPT ![level + 1] = v]
        l   == Len(v)
        hs3 == IF Len(hs2) <= level + 1 THEN Append(hs2, <<>>) ELSE hs2
    IN  IF l % 2 = 0
        THEN [hs3 EXCEPT ![level + 2] = Append(@, hash_two_strings(v[l - 1], v[l]))]
        ELSE hs2

RECURSIVE push_hash(_, _, _)
push_hash(hs, level, h) ==
    LET hs1 == IF Len(hs) <= level THEN Append(hs, <<>>) ELSE hs
        v   == Append(hs1[level + 1], h)
        hs2 == [hs1 EXCEPT ![level + 1] = v]
        l   == Len(v)
    IN  IF l % 2 = 0
        THEN push_hash(hs2, level + 1, hash_two_strings(v[l - 1], v[l]))
        ELSE hs2

\* InMemoryLog::append: the log after the call
append(log, record) ==
    InMemoryLog(Append(log.data, record), push_hash(log.hashes, 0, hash(record)))

\* first loop of latest(): last hash of every odd level, highest level first
RECURSIVE frontier(_, _)
frontier(hs, k) ==
    IF k = 0 THEN <<>>
    ELSE (IF Len(hs[k]) % 2 = 1 THEN <<hs[k][Len(hs[k])]>> ELSE <<>>)
             \o frontier(hs, k - 1)

\* the second loop of latest() hashing the two popped strings in pop order
RECURSIVE fold_frontier_pop_order(_)
fold_frontier_pop_order(r) ==
    IF Len(r) > 1
    THEN LET s1 == r[Len(r)]
             s2 == r[Len(r) - 1]
         IN  fold_frontier_pop_order(
                 Append(SubSeq(r, 1, Len(r) - 2), hash_two_strings(s1, s2)))
    ELSE r

\* second loop of latest(): pop s1, pop s2, push H(s2 s1)
RECURSIVE fold_frontier(_)
fold_frontier(r) ==
    IF Len(r) > 1
    THEN LET s1 == r[Len(r)]
             s2 == r[Len(r) - 1]
         IN  fold_frontier(Append(SubSeq(r, 1, Len(r) - 2), hash_two_strings(s2, s1)))
    ELSE r

\* InMemoryLog::latest
log_latest(log) ==
    LET r == fold_frontier(frontier(log.hashes, Len(log.hashes)))
    IN  LogTree(Len(log.data), IF r = <<>> THEN Empty ELSE r[1])

\* a node the log stores
Stored(log, p) ==
    /\ p.level < Len(log.hashes)
    /\ p.index < Len(log.hashes[p.level + 1])

\* proofs that counts the index of a position from the end of its level
proofs_from_end(log, positions) ==
    IF \A p \in positions : Stored(log, p)
    THEN [status |-> "ok",
          map |-> [p \in positions |->
                      log.hashes[p.level + 1][Len(log.hashes[p.level + 1]) - p.index]]]
    ELSE [status |-> "panic", map |-> EmptyMap]

\* InMemoryLog::proofs: self.hashes[r][i] panics on a position not stored
proofs(log, positions) ==
    IF \A p \in positions : Stored(log, p)
    THEN [status |-> "ok",
          map |-> [p \in positions |-> log.hashes[p.level + 1][p.index + 1]]]
    ELSE [status |-> "panic", map |-> EmptyMap]

\* Option<T>
None == [some |-> FALSE, value |-> 0]
Some(value) == [some |-> TRUE, value |-> value]

\* InMemoryLog::append: the value the call returns
append_returns(log, record) == Len(append(log, record).data)

\* InMemoryLog::get
get(log, index) ==
    IF index < Len(log.data) THEN Some(log.data[index + 1]) ELSE None

\* ------------------------------------------------------------------ file log
\* FileLog: index.bin as its (offset, length) entries, data.bin as its
\* bytes, hash{L}.bin as the hashes of level L; hashes[L + 1] is hash{L}.bin
FileLog(ix, bytes, hs) == [index |-> ix, data |-> bytes, hashes |-> hs]

\* FileLog::open on an empty directory
EmptyFileLog == FileLog(<<>>, <<>>, <<>>)

\* rmp_serde::to_vec: the encoding of a record, one or two bytes long
to_vec(record) == [k \in 1..(1 + (record % 2)) |-> record]

\* rmp_serde::from_read_ref
from_read_ref(bytes) == bytes[1]

\* push_hash of file.rs reading back the hash it has just written
RECURSIVE file_push_hash_reread(_, _, _)
file_push_hash_reread(hs, level, h) ==
    LET hs1 == IF Len(hs) <= level THEN Append(hs, <<>>) ELSE hs
        v   == Append(hs1[level + 1], h)
        hs2 == [hs1 EXCEPT ![level + 1] = v]
        l   == Len(v)
    IN  IF l % 2 = 0
        THEN LET b2 == v[l]
             IN  file_push_hash_reread(hs2, level + 1, hash_two_strings(b2, h))
        ELSE hs2

\* push_hash of file.rs: write the hash, read the one before it when the
\* file holds an even number of hashes
RECURSIVE file_push_hash(_, _, _)
file_push_hash(hs, level, h) ==
    LET hs1 == IF Len(hs) <= level THEN Append(hs, <<>>) ELSE hs
        v   == Append(hs1[level + 1], h)
        hs2 == [hs1 EXCEPT ![level + 1] = v]
        l   == Len(v)
    IN  IF l % 2 = 0
        THEN LET b2 == v[l - 1]
             IN  file_push_hash(hs2, level + 1, hash_two_strings(b2, h))
        ELSE hs2

\* FileLog::append: the log after the call and the pair it returns
file_append(fl, record) ==
    LET offset == Len(fl.data)
        bytes  == to_vec(record)
        id     == Len(fl.index)
    IN  [log |-> FileLog(Append(fl.index, [offset |-> offset, length |-> Len(bytes)]),
                         fl.data \o bytes,
                         file_push_hash(fl.hashes, 0, hash(record))),
         id |-> id,
         hash |-> hash(record)]

\* first loop of FileLog::latest: last hash of every file with an odd
\* number of hashes, highest level first
RECURSIVE file_frontier(_, _)
file_frontier(hs, k) ==
    IF k = 0 THEN <<>>
    ELSE LET len == Len(hs[k])
         IN  (IF len % 2 = 1 THEN <<hs[k][len]>> ELSE <<>>) \o file_frontier(hs, k - 1)

\* second loop of FileLog::latest
RECURSIVE file_fold(_)
file_fold(r) ==
    IF Len(r) > 1
    THEN LET s1 == r[Len(r)]
             s2 == r[Len(r) - 1]
         IN  file_fold(Append(SubSeq(r, 1, Len(r) - 2), hash_two_strings(s2, s1)))
    ELSE r

\* FileLog::latest
file_latest(fl) ==
    LET r == file_fold(file_frontier(fl.hashes, Len(fl.hashes)))
    IN  LogTree(Len(fl.index), IF r = <<>> THEN Empty ELSE r[1])

\* FileLog::get: read_exact on index.bin fails past the end of the file
file_get(fl, index) ==
    IF index < Len(fl.index)
    THEN LET e == fl.index[index + 1]
         IN  [status |-> "ok",
              value |-> Some(from_read_ref(SubSeq(fl.data, e.offset + 1,
                                                  e.offset + e.length)))]
    ELSE [status |-> "error", value |-> None]

\* FileLog::proofs: a position whose level has no file is skipped; read_exact
\* fails on a position past the end of its file
file_proofs(fl, positions) ==
    LET known == {p \in positions : p.level < Len(fl.hashes)}
    IN  IF \A p \in known : p.index < Len(fl.hashes[p.level + 1])
        THEN [status |-> "ok",
              map |-> [p \in known |-> fl.hashes[p.level + 1][p.index + 1]]]
        ELSE [status |-> "error", map |-> EmptyMap]

\* a backend call that returns Err: the call and the tree level it is made for
Fault(point, level) == [point |-> point, level |-> level]
NoFault == Fault("none", 0)

\* push_hash of file.rs with write_all (line 65) or read_exact (line 70)
\* returning Err at the level of the fault: the hashes after the call
RECURSIVE file_push_hash_fault(_, _, _, _)
file_push_hash_fault(hs, level, h, fault) ==
    LET hs1 == IF Len(hs) <= level THEN Append(hs, <<>>) ELSE hs
        v   == Append(hs1[level + 1], h)
        hs2 == [hs1 EXCEPT ![level + 1] = v]
        l   == Len(v)
    IN  IF fault = Fault("write", level) THEN [status |-> "error", hashes |-> hs1]
        ELSE IF l % 2 = 0
        THEN IF fault = Fault("read", level) THEN [status |-> "error", hashes |-> hs2]
             ELSE file_push_hash_fault(hs2, level + 1, hash_two_strings(v[l - 1], h), fault)
        ELSE [status |-> "ok", hashes |-> hs2]

\* FileLog::append with a file operation that may return Err: the write to
\* data.bin (line 92), the writes to index.bin (96-97), or one in push_hash
file_append_fault(fl, record, fault) ==
    LET offset == Len(fl.data)
        bytes  == to_vec(record)
        id     == Len(fl.index)
        index2 == Append(fl.index, [offset |-> offset, length |-> Len(bytes)])
        p      == file_push_hash_fault(fl.hashes, 0, hash(record), fault)
    IN  IF fault = Fault("data", 0)
        THEN [status |-> "error", log |-> fl, id |-> id, hash |-> hash(record)]
        ELSE IF fault = Fault("index", 0)
        THEN [status |-> "error", log |-> FileLog(fl.index, fl.data \o bytes, fl.hashes),
              id |-> id, hash |-> hash(record)]
        ELSE [status |-> p.status, log |-> FileLog(index2, fl.data \o bytes, p.hashes),
              id |-> id, hash |-> hash(record)]

\* the directory a FileLog leaves when it is dropped: index.bin, data.bin
\* and hash{l}.bin for every level l it has a file for
file_close(fl) ==
    [index |-> fl.index, data |-> fl.data,
     hashes |-> [l \in 0..(Len(fl.hashes) - 1) |-> fl.hashes[l + 1]]]

\* the while loop of FileLog::open: hash{ix}.bin, hash{ix+1}.bin, ... as
\* long as the file exists
RECURSIVE file_open_hashes(_, _)
file_open_hashes(dir, ix) ==
    IF ix \in DOMAIN dir.hashes
    THEN <<dir.hashes[ix]>> \o file_open_hashes(dir, ix + 1)
    ELSE <<>>

\* FileLog::open on a directory
file_open(dir) == FileLog(dir.index, dir.data, file_open_hashes(dir, 0))

\* ------------------------------------------------------------------ RocksDB log
\* RocksDBLog: the size field, the data column family (id -> record) and
\* the hash column family ((level, index) -> hash)
RocksDBLog(size, d, hs) == [size |-> size, data |-> d, hashes |-> hs]

\* RocksDBLog::open on an empty directory
EmptyRocksDBLog == RocksDBLog(0, EmptyMap, EmptyMap)

\* RocksDBLog::add: the log after the call and the id it returns
rocks_add(db, record) ==
    [log |-> RocksDBLog(db.size + 1,
                        MapExtend(db.data, [i \in {db.size} |-> record]),
                        db.hashes),
     id |-> db.size]

\* add_hash with a key built from the index alone
rocks_add_hash_no_level(db, level, h) ==
    LET sizes == tree_sizes(db.size)
    IN  IF level >= Len(sizes) THEN [status |-> "panic", log |-> db, index |-> 0]
        ELSE IF sizes[level + 1] = 0 THEN [status |-> "overflow", log |-> db, index |-> 0]
        ELSE LET index == sizes[level + 1] - 1
             IN  [status |-> "ok",
                  log |-> [db EXCEPT !.hashes =
                               MapExtend(db.hashes, [p \in {Pos(0, index)} |-> h])],
                  index |-> index]

\* RocksDBLog::add_hash: unwrap() panics on a level tree_sizes does not
\* have, the subtraction overflows on an empty level; put_cf replaces the
\* value of a key that exists
rocks_add_hash(db, level, h) ==
    LET sizes == tree_sizes(db.size)
    IN  IF level >= Len(sizes) THEN [status |-> "panic", log |-> db, index |-> 0]
        ELSE IF sizes[level + 1] = 0 THEN [status |-> "overflow", log |-> db, index |-> 0]
        ELSE LET index == sizes[level + 1] - 1
             IN  [status |-> "ok",
                  log |-> [db EXCEPT !.hashes =
                               MapExtend(db.hashes, [p \in {Pos(level, index)} |-> h])],
                  index |-> index]

\* RocksDBLog::get_hash: unwrap() panics on a key that is absent
rocks_get_hash(db, level, index) ==
    IF Pos(level, index) \in DOMAIN db.hashes
    THEN [status |-> "ok", hash |-> db.hashes[Pos(level, index)]]
    ELSE [status |-> "panic", hash |-> Empty]

\* TransparentLog::push_hash over add_hash and get_hash
RECURSIVE rocks_push_hash(_, _, _)
rocks_push_hash(db, level, h) ==
    LET a == rocks_add_hash(db, level, h)
    IN  IF a.status # "ok" THEN [status |-> a.status, log |-> a.log]
        ELSE IF a.index % 2 = 1
        THEN LET hash1 == rocks_get_hash(a.log, level, a.index - 1)
             IN  IF hash1.status # "ok" THEN [status |-> hash1.status, log |-> a.log]
                 ELSE rocks_push_hash(a.log, level + 1, hash_two_strings(hash1.hash, h))
        ELSE [status |-> "ok", log |-> a.log]

\* TransparentLog::append over add and push_hash: the log after the call
\* and the Record it returns
rocks_append(db, record) ==
    LET a == rocks_add(db, record)
        p == rocks_push_hash(a.log, 0, hash(record))
    IN  [status |-> p.status, log |-> p.log, id |-> a.id, hash |-> hash(record)]

\* RocksDBLog::get
rocks_get(db, index) ==
    IF index \in DOMAIN db.data THEN Some(db.data[index]) ELSE None

\* push_hash of the trait over a RocksDBLog whose add_hash or get_hash
\* returns Err (put_cf or get_cf failing) at the level of the fault
RECURSIVE rocks_push_hash_fault(_, _, _, _)
rocks_push_hash_fault(db, level, h, fault) ==
    IF fault = Fault("add_hash", level) THEN [status |-> "error", log |-> db]
    ELSE LET a == rocks_add_hash(db, level, h)
         IN  IF a.status # "ok" THEN [status |-> a.status, log |-> a.log]
             ELSE IF a.index % 2 = 1
             THEN IF fault = Fault("get_hash", level)
                  THEN [status |-> "error", log |-> a.log]
                  ELSE LET hash1 == rocks_get_hash(a.log, level, a.index - 1)
                       IN  IF hash1.status # "ok"
                           THEN [status |-> hash1.status, log |-> a.log]
                           ELSE rocks_push_hash_fault(a.log, level + 1,
                                    hash_two_strings(hash1.hash, h), fault)
             ELSE [status |-> "ok", log |-> a.log]

\* TransparentLog::append over a RocksDBLog with a backend call that may
\* return Err: add (put_cf of line 53, before size += 1), add_hash or get_hash
rocks_append_fault(db, record, fault) ==
    IF fault = Fault("add", 0)
    THEN [status |-> "error", log |-> db, id |-> db.size, hash |-> hash(record)]
    ELSE LET a == rocks_add(db, record)
             p == rocks_push_hash_fault(a.log, 0, hash(record), fault)
         IN  [status |-> p.status, log |-> p.log, id |-> a.id, hash |-> hash(record)]

\* the database a RocksDBLog leaves when it is dropped: the two column
\* families, without the size field
rocks_close(db) == [data |-> db.data, hashes |-> db.hashes]

\* the largest key of a column family: the first entry of IteratorMode::End
\* over big-endian keys
last_key(cf) == CHOOSE k \in DOMAIN cf : \A j \in DOMAIN cf : j <= k

\* RocksDBLog::open taking the last key of the data family for the size
rocks_open_last_key(dir) ==
    RocksDBLog(IF DOMAIN dir.data = {} THEN 0 ELSE last_key(dir.data),
               dir.data, dir.hashes)

\* RocksDBLog::open: size is the last key of the data family + 1, or 0
rocks_open(dir) ==
    RocksDBLog(IF DOMAIN dir.data = {} THEN 0 ELSE last_key(dir.data) + 1,
               dir.data, dir.hashes)

\* the add_hash calls of push_hash(level, h) on a RocksDBLog: for each, its
\* level, its outcome, the index it derives from tree_sizes(size) and the
\* number of hashes the level held before the call
RECURSIVE rocks_add_hash_calls(_, _, _)
rocks_add_hash_calls(db, level, h) ==
    LET a    == rocks_add_hash(db, level, h)
        call == [level |-> level, status |-> a.status, index |-> a.index,
                 stored |-> Cardinality({p \in DOMAIN db.hashes : p.level = level})]
    IN  {call} \cup
            (IF a.status = "ok" /\ a.index % 2 = 1
             THEN LET hash1 == rocks_get_hash(a.log, level, a.index - 1)
                  IN  IF hash1.status = "ok"
                      THEN rocks_add_hash_calls(a.log, level + 1,
                                                hash_two_strings(hash1.hash, h))
                      ELSE {}
             ELSE {})

\* ------------------------------------------------------------------ client
\* InMemoryLogClient.cache: Option<HashMap>
NoCache == [some |-> FALSE, map |-> EmptyMap]
NewCache == [some |-> TRUE, map |-> EmptyMap]

\* InMemoryLogClient::cached: the positions that have a cached hash
cached(c, positions) ==
    IF c.some THEN {p \in positions : p \in DOMAIN c.map} ELSE {}

\* add_cached that keeps the leaf hashes only
add_cached_leaves_only(c, read) ==
    IF c.some
    THEN [c EXCEPT !.map = MapExtend(c.map,
                      [p \in {q \in DOMAIN read : q.level = 0} |-> read[p]])]
    ELSE c

\* add_cached that keeps nothing
add_cached_nothing(c, read) == c

\* InMemoryLogClient::add_cached
add_cached(c, read) ==
    IF c.some THEN [c EXCEPT !.map = MapExtend(c.map, read)] ELSE c

\* the backend calls of check_record that may return Err
Faults == {"none", "latest", "prefix_proofs", "proofs"}

\* get_proofs that asks the log for every position, cached or not
get_proofs_reads_all(c, log, positions, fail) ==
    LET hit  == cached(c, positions)
        have == [p \in hit |-> c.map[p]]
        read == proofs(log, positions)
    IN  IF fail THEN [status |-> "error", map |-> EmptyMap, cache |-> c, read |-> EmptyMap]
        ELSE IF read.status # "ok"
        THEN [status |-> read.status, map |-> EmptyMap, cache |-> c, read |-> EmptyMap]
        ELSE [status |-> "ok",
              map |-> IF hit = {} THEN read.map ELSE MapExtend(have, read.map),
              cache |-> add_cached(c, read.map),
              read |-> read.map]

\* get_proofs that returns what it read and forgets the hashes taken from
\* the cache
get_proofs_read_only(c, log, positions, fail) ==
    LET hit  == cached(c, positions)
        read == proofs(log, positions \ hit)
    IN  IF fail THEN [status |-> "error", map |-> EmptyMap, cache |-> c, read |-> EmptyMap]
        ELSE IF read.status # "ok"
        THEN [status |-> read.status, map |-> EmptyMap, cache |-> c, read |-> EmptyMap]
        ELSE [status |-> "ok", map |-> read.map,
              cache |-> add_cached(c, read.map), read |-> read.map]

\* get_proofs: status, the proof map handed to the verification, the cache after
get_proofs(c, log, positions, fail) ==
    LET hit  == cached(c, positions)
        have == [p \in hit |-> c.map[p]]
        read == proofs(log, positions \ hit)
    IN  IF fail THEN [status |-> "error", map |-> EmptyMap, cache |-> c, read |-> EmptyMap]
        ELSE IF read.status # "ok"
        THEN [status |-> read.status, map |-> EmptyMap, cache |-> c, read |-> EmptyMap]
        ELSE [status |-> "ok",
              map |-> IF hit = {} THEN read.map ELSE MapExtend(have, read.map),
              cache |-> add_cached(c, read.map),
              read |-> read.map]

\* outcome of a call: the Result returned (or the panic), and the client after
Outcome(status, value, l, c) ==
    [status |-> status, value |-> value, latest |-> l, cache |-> c]

\* lines 127-129 of check_record: the inclusion step under witness l
check_inclusion(l, c, log, record, fault) ==
    LET g == get_proofs(c, log, proof_positions(record.id, l.size), fault = "proofs")
    IN  IF g.status # "ok" THEN Outcome(g.status, FALSE, l, g.cache)
        ELSE Outcome("ok", verify(l, record, g.map), l, g.cache)

\* set_latest that stores the new size and keeps the old root
set_latest_size_only(l, l2) == [size |-> l2.size, hash |-> l.hash]

\* InMemoryLogClient::set_latest: the witness after the call
set_latest(l, l2) == l2

\* the advance step with set_latest moved before the consistency check
advance_eager(l, c, log, fault) ==
    IF fault = "latest" THEN Outcome("error", FALSE, l, c)
    ELSE LET l2 == log_latest(log)
         IN  IF l.size > 0
             THEN IF ~prefix_precondition(l.size, l2.size)
                  THEN Outcome("panic", FALSE, l2, c)
                  ELSE LET g == get_proofs(c, log, prefix_proof_positions(l.size, l2.size),
                                           fault = "prefix_proofs")
                       IN  IF g.status # "ok" THEN Outcome(g.status, FALSE, l2, g.cache)
                           ELSE IF ~verify_tree(l, g.map) THEN Outcome("ok", FALSE, l2, g.cache)
                           ELSE IF ~verify_tree(l2, g.map) THEN Outcome("ok", FALSE, l2, g.cache)
                           ELSE Outcome("ok", TRUE, l2, g.cache)
             ELSE Outcome("ok", TRUE, l2, c)

\* the advance step without the check of the old witness
advance_new_only(l, c, log, fault) ==
    IF fault = "latest" THEN Outcome("error", FALSE, l, c)
    ELSE LET l2 == log_latest(log)
         IN  IF l.size > 0
             THEN IF ~prefix_precondition(l.size, l2.size)
                  THEN Outcome("panic", FALSE, l, c)
                  ELSE LET g == get_proofs(c, log, prefix_proof_positions(l.size, l2.size),
                                           fault = "prefix_proofs")
                       IN  IF g.status # "ok" THEN Outcome(g.status, FALSE, l, g.cache)
                           ELSE IF ~verify_tree(l2, g.map) THEN Outcome("ok", FALSE, l, g.cache)
                           ELSE Outcome("ok", TRUE, l2, g.cache)
             ELSE Outcome("ok", TRUE, l2, c)

\* the advance step without the test of the witness's size
advance_always_checks(l, c, log, fault) ==
    IF fault = "latest" THEN Outcome("error", FALSE, l, c)
    ELSE LET l2 == log_latest(log)
         IN  IF ~prefix_precondition(l.size, l2.size)
             THEN Outcome("panic", FALSE, l, c)
             ELSE LET g == get_proofs(c, log, prefix_proof_positions(l.size, l2.size),
                                      fault = "prefix_proofs")
                  IN  IF g.status # "ok" THEN Outcome(g.status, FALSE, l, g.cache)
                      ELSE IF ~verify_tree(l, g.map) THEN Outcome("ok", FALSE, l, g.cache)
                      ELSE IF ~verify_tree(l2, g.map) THEN Outcome("ok", FALSE, l, g.cache)
                      ELSE Outcome("ok", TRUE, set_latest(l, l2), g.cache)

\* lines 113-125 of check_record: the advance step under witness l; value
\* tells whether the call goes on to the inclusion step
advance(l, c, log, fault) ==
    IF fault = "latest" THEN Outcome("error", FALSE, l, c)
    ELSE LET l2 == log_latest(log)
         IN  IF l.size > 0
             THEN IF ~prefix_precondition(l.size, l2.size)
                  THEN Outcome("panic", FALSE, l, c)
                  ELSE LET g == get_proofs(c, log, prefix_proof_positions(l.size, l2.size),
                                           fault = "prefix_proofs")
                       IN  IF g.status # "ok" THEN Outcome(g.status, FALSE, l, g.cache)
                           ELSE IF ~verify_tree(l, g.map) THEN Outcome("ok", FALSE, l, g.cache)
                           ELSE IF ~verify_tree(l2, g.map) THEN Outcome("ok", FALSE, l, g.cache)
                           ELSE Outcome("ok", TRUE, set_latest(l, l2), g.cache)
             ELSE Outcome("ok", TRUE, set_latest(l, l2), c)

\* check_record without the test of the claimed id against the witness
check_record_always_advances(l, c, log, record, fault) ==
    LET a == advance(l, c, log, fault)
    IN  IF a.status = "ok" /\ a.value
        THEN check_inclusion(a.latest, a.cache, log, record, fault)
        ELSE a

check_record(l, c, log, record, fault) ==
    IF record.id >= l.size
    THEN LET a == advance(l, c, log, fault)
         IN  IF a.status = "ok" /\ a.value
             THEN check_inclusion(a.latest, a.cache, log, record, fault)
             ELSE a
    ELSE check_inclusion(l, c, log, record, fault)

\* the hashes the log returns to the get_proofs calls of one check_record
\* call: those of line 117 when the witness advances, then those of line 128
check_record_reads(l, c, log, record, fault) ==
    LET adv == record.id >= l.size
        a   == advance(l, c, log, fault)
        g1  == IF adv /\ fault # "latest" /\ l.size > 0
                      /\ prefix_precondition(l.size, Len(log.data))
               THEN get_proofs(c, log, prefix_proof_positions(l.size, Len(log.data)),
                               fault = "prefix_proofs").read
               ELSE EmptyMap
        go  == ~adv \/ (a.status = "ok" /\ a.value)
        l1  == IF adv THEN a.latest ELSE l
        c1  == IF adv THEN a.cache ELSE c
        g2  == IF go
               THEN get_proofs(c1, log, proof_positions(record.id, l1.size),
                               fault = "proofs").read
               ELSE EmptyMap
    IN  MapExtend(g1, g2)

\* ------------------------------------------------------------------ state machine
log == InMemoryLog(data, hashes)

\* the record append_multiple gives index i ("rec{i}")
Rec(i) == i

\* a record that differs from Rec(i) for every i
OtherRec == 0 - 1

\* append_multiple: the log after appending the records to an empty log
RECURSIVE replay(_)
replay(records) ==
    IF records = <<>> THEN EmptyLog
    ELSE append(replay(SubSeq(records, 1, Len(records) - 1)), records[Len(records)])

\* latest() as it was when the log held its first m records
PrefixWitness(m) == log_latest(replay(SubSeq(data, 1, m)))

\* hashes a caller may claim for record id: the right one, those of two
\* other records, a digest of no record, the empty string
ClaimHashes(id) == {hash(Rec(id)), hash(Rec(0)), hash(Rec(1)), Bogus, Empty}

CallOp(name, id) == [name |-> name, id |-> id]
Ok(value) == [status |-> "ok", value |-> value]

\* a fresh log, and a client of InMemoryLogClientBuilder::new(&log), with or
\* without no_cache()
Init ==
    /\ data = EmptyLog.data
    /\ hashes = EmptyLog.hashes
    /\ latest = log_latest(EmptyLog)
    /\ cache \in {NewCache, NoCache}
    /\ op = CallOp("new", 0)
    /\ ret = Ok(TRUE)
    /\ filelog = EmptyFileLog
    /\ rocksdb = EmptyRocksDBLog

\* a panic ends the program
Running == ret.status # "panic"

AppendRecord ==
    /\ Running
    /\ Len(data) < MaxLog
    /\ \E l \in {append(log, Rec(Len(data)))} :
           /\ data' = l.data
           /\ hashes' = l.hashes
    /\ op' = CallOp("append", Len(data))
    /\ ret' = Ok(TRUE)
    /\ UNCHANGED <<latest, cache, filelog, rocksdb>>

CheckRecord(id, h, fault) ==
    /\ Running
    /\ \E o \in {check_record(latest, cache, log, Record(id, h), fault)} :
           /\ latest' = o.latest
           /\ cache' = o.cache
           /\ ret' = [status |-> o.status, value |-> o.value]
    /\ op' = CallOp("check_record", id)
    /\ UNCHANGED <<data, hashes, filelog, rocksdb>>

Next ==
    \/ AppendRecord
    \/ \E id \in 0..MaxId, fault \in Faults :
           \E h \in ClaimHashes(id) : CheckRecord(id, h, fault)

Spec == Init /\ [][Next]_vars

\* ------------------------------------------------------------------ proof specification
\* The callers of check_13 and test_verify_tree_prefix: a log grown by
\* appends, whose proofs are verified against its latest().

AppendTree ==
    /\ Len(data) < MaxTree
    /\ \E l \in {append(log, Rec(Len(data)))} :
           /\ data' = l.data
           /\ hashes' = l.hashes
    /\ op' = CallOp("append", Len(data))
    /\ ret' = Ok(TRUE)
    /\ UNCHANGED <<latest, cache, filelog, rocksdb>>

\* every node the log stores, with its hash
StoredMap(l) ==
    [p \in {Pos(k, j) : <<k, j>> \in
              {x \in (0..(Len(l.hashes) - 1)) \X (0..(Len(l.data) - 1)) :
                   x[2] < Len(l.hashes[x[1] + 1])}}
        |-> l.hashes[p.level + 1][p.index + 1]]

\* the hash of every node and of every unfinished subtree of the log, as
\* calc_hash gives it from the stored nodes (Empty where there is no leaf)
SubtreeHashes(l) ==
    LET sizes == tree_sizes(Len(l.data))
    IN  {calc_hash(Pos(k, j), StoredMap(l), sizes) :
            <<k, j>> \in (0..(Len(sizes) - 1)) \X (0..(Len(l.data) - 1))}

\* values a corrupted proof entry may take
TamperValues(l) == SubtreeHashes(l) \cup {Bogus, Empty}

\* check_13: verify record i of the log with the proofs the log returns
VerifyRecord(i) ==
    /\ i < Len(data)
    /\ \E m \in {proofs(log, proof_positions(i, Len(data)))} :
           /\ m.status = "ok"
           /\ ret' = Ok(verify(log_latest(log), Record(i, hash(data[i + 1])), m.map))
    /\ op' = CallOp("verify", i)
    /\ UNCHANGED <<data, hashes, latest, cache, filelog, rocksdb>>

\* the same with the hash of one position of the proof map replaced
VerifyTampered(i, p, v) ==
    /\ i < Len(data)
    /\ \E m \in {proofs(log, proof_positions(i, Len(data)))} :
           /\ m.status = "ok"
           /\ p \in DOMAIN m.map
           /\ v # m.map[p]
           /\ ret' = Ok(verify(log_latest(log), Record(i, hash(data[i + 1])),
                               [m.map EXCEPT ![p] = v]))
    /\ op' = CallOp("verify_tampered", i)
    /\ UNCHANGED <<data, hashes, latest, cache, filelog, rocksdb>>

\* test_verify_tree_prefix: the witness taken at size m and the latest one,
\* verified with the prefix proofs of the current log
VerifyTreePrefix(m) ==
    /\ 0 < m /\ m < Len(data)
    /\ \E r \in {proofs(log, prefix_proof_positions(m, Len(data)))} :
           /\ r.status = "ok"
           /\ ret' = Ok(verify_tree(PrefixWitness(m), r.map)
                            /\ verify_tree(log_latest(log), r.map))
    /\ op' = CallOp("verify_tree", m)
    /\ UNCHANGED <<data, hashes, latest, cache, filelog, rocksdb>>

NextTree ==
    \/ AppendTree
    \/ \E i \in 0..(MaxTree - 1) : VerifyRecord(i)
    \/ \E v \in TamperValues(log) :
           \E i \in 0..(Len(data) - 1) :
               \E p \in proof_positions(i, Len(data)) : VerifyTampered(i, p, v)
    \/ \E m \in 1..(MaxTree - 1) : VerifyTreePrefix(m)

SpecTree == Init /\ [][NextTree]_vars

\* ------------------------------------------------------------------ claims
\* C1. Inclusion soundness: in a log of n > 0 records, for every i < n the
\* log returns a hash for every position of proof_positions(i, n), and verify
\* accepts (i, leaf hash of record i) under latest() with these proofs.
C1_InclusionSound ==
    /\ \A i \in 0..(Len(data) - 1) :
           LET m == proofs(log, proof_positions(i, Len(data)))
           IN  /\ m.status = "ok"
               /\ verify(log_latest(log), Record(i, hash(data[i + 1])), m.map)
    /\ (op.name = "verify" => ret = Ok(TRUE))

\* C2. Consistency soundness: for 0 < m < n, the proofs over
\* prefix_proof_positions(m, n) read from the size-n log verify both the
\* witness taken after m appends and the one taken after n appends.
C2_ConsistencySound ==
    /\ \A m \in 1..(Len(data) - 1) :
           LET r == proofs(log, prefix_proof_positions(m, Len(data)))
           IN  /\ r.status = "ok"
               /\ verify_tree(PrefixWitness(m), r.map)
               /\ verify_tree(log_latest(log), r.map)
    /\ (op.name = "verify_tree" => ret = Ok(TRUE))

\* C6. Tamper detection: with the hash of any single position of the
\* inclusion proof of record i replaced by a different value, verify rejects
\* (i, leaf hash of record i).
C6_TamperDetected ==
    /\ \A i \in 0..(Len(data) - 1) :
           LET m == proofs(log, proof_positions(i, Len(data))).map
           IN  \A p \in DOMAIN m : \A v \in TamperValues(log) \ {m[p]} :
                   ~verify(log_latest(log), Record(i, hash(data[i + 1])),
                           [m EXCEPT ![p] = v])
    /\ (op.name = "verify_tampered" => ret = Ok(FALSE))

\* the outcome of check_record for a claim, were it called in this state
\* with no backend error
Checked(id, h) == check_record(latest, cache, log, Record(id, h), "none")

\* C3. No false acceptance: against the honest log, check_record returns
\* true only for a claim whose id is below the log size and whose hash is
\* the leaf hash of the record stored at that id.
C3_NoFalseAcceptance ==
    /\ \A id \in 0..MaxId : \A h \in ClaimHashes(id) :
           LET o == Checked(id, h)
           IN  (o.status = "ok" /\ o.value)
                   => (id < Len(data) /\ h = hash(data[id + 1]))
    /\ (op.name = "check_record" /\ ret = Ok(TRUE) => op.id < Len(data))

\* C5. check_record never aborts: every call returns a boolean or a backend
\* error; in particular no call reaches prefix_proof_positions(size1, size2)
\* with its asserted precondition 0 < size1 < size2 false (a failed assert!
\* is an abort).
C5_NeverAborts == ret.status # "panic"

\* C8. The cache is never poisoned: a check_record call that returns false
\* leaves no hash in the cache that was not there before the call.
C8_CacheNeverPoisoned ==
    [][(op'.name = "check_record" /\ ret' = Ok(FALSE)) => cache' = cache]_vars

\* C9. A backend error of latest() or of proofs() in the advance step is
\* returned by check_record and leaves the client's witness unchanged: for
\* every claim that makes the client advance, a call in which latest() fails,
\* and a call in which the proofs() of the consistency check fails, return
\* the error with the witness as it was.
C9_AdvanceErrorKeepsWitness ==
    \A id \in 0..MaxId : \A h \in ClaimHashes(id) :
        id >= latest.size =>
            /\ LET o == check_record(latest, cache, log, Record(id, h), "latest")
               IN  o.status = "error" /\ o.latest = latest
            /\ prefix_precondition(latest.size, Len(data)) =>
                   LET o == check_record(latest, cache, log, Record(id, h), "prefix_proofs")
                   IN  o.status = "error" /\ o.latest = latest

\* an error came back from the advance step: after the call the claimed id
\* is not below the witness although the log is larger than the witness
C9_Witness ==
    /\ op.name = "check_record"
    /\ ret.status = "error"
    /\ op.id >= latest.size
    /\ 0 < latest.size /\ latest.size < Len(data)

\* C10. Witness monotonicity: a step never decreases the size of the client's
\* witness, and a witness that changes becomes the pair latest() returns in
\* that step.
C10_WitnessMonotonic ==
    [][/\ latest'.size >= latest.size
       /\ (latest' # latest => latest' = log_latest(log))]_vars

\* the client advanced from a non-empty witness to the latest one
C10_Witness ==
    /\ op.name = "check_record"
    /\ latest = log_latest(log)
    /\ latest.size = MaxLog
    /\ cache.some
    /\ \A p \in prefix_proof_positions(MaxLog - 1, MaxLog) : p \in DOMAIN cache.map

\* C11. Cache transparency: from the same witness and against the same honest
\* log, a client with the cache this client has built up and a client built
\* with no_cache() get the same result from every check_record call and hold
\* the same witness after it; the two therefore stay in step over any
\* sequence of appends and calls.
C11_CacheTransparent ==
    cache.some =>
        \A id \in 0..MaxId : \A h \in ClaimHashes(id) :
            LET a == Checked(id, h)
                b == check_record(latest, NoCache, log, Record(id, h), "none")
            IN  a.status = b.status /\ a.value = b.value /\ a.latest = b.latest

\* a caching client that accepted a record holds hashes that a later check
\* of a record of the log takes from the cache
C11_Witness ==
    /\ cache.some
    /\ op.name = "check_record"
    /\ ret = Ok(TRUE)
    /\ \E id \in 0..(Len(data) - 1) :
           /\ id < latest.size
           /\ cached(cache, proof_positions(id, latest.size)) # {}
           /\ Checked(id, hash(Rec(id))).value

\* the root calc_hash rebuilds from every node the log stores
StoredRoot(l) ==
    LET sizes == tree_sizes(Len(l.data))
    IN  IF sizes = <<>> THEN Empty
        ELSE calc_hash(Pos(Len(sizes) - 1, 0), StoredMap(l), sizes)

\* C13. latest() after n appends returns (n, root), where root is "" for
\* n = 0 and otherwise the hash calc_hash gives for the top position
\* (len(tree_sizes(n)) - 1, 0) over the map of all stored node hashes.
C13_LatestIsStoredRoot ==
    /\ log_latest(log).size = Len(data)
    /\ (Len(data) = 0 => log_latest(log).hash = Empty)
    /\ log_latest(log).hash = StoredRoot(log)

\* a log of 13 records: latest() folds three frontier hashes, and the top
\* level of tree_sizes is empty
C13_Witness ==
    /\ Len(data) = 13
    /\ op.name = "append"
    /\ Len(frontier(hashes, Len(hashes))) = 3
    /\ tree_sizes(13)[Len(tree_sizes(13))] = 0
    /\ log_latest(log).hash # Empty

\* C17. After each append the log size is the previous size plus 1, and for
\* the witnesses w_n (before, n > 0) and w_(n+1) (after), the proofs over
\* prefix_proof_positions(n, n+1) read from the new log make
\* verify_tree(w_n, .) and verify_tree(w_(n+1), .) both true.
C17_AppendExtendsPrefix ==
    [][data' # data =>
          LET old == log
              new == InMemoryLog(data', hashes')
          IN  /\ log_latest(new).size = log_latest(old).size + 1
              /\ Len(data) > 0 =>
                     LET r == proofs(new, prefix_proof_positions(Len(data), Len(data) + 1))
                     IN  /\ r.status = "ok"
                         /\ verify_tree(log_latest(old), r.map)
                         /\ verify_tree(log_latest(new), r.map)]_vars

\* the thirteenth append: the witness of the first 12 records is a prefix
\* of the new one
C17_Witness ==
    /\ op = CallOp("append", 12)
    /\ log_latest(log).size = 13
    /\ PrefixWitness(12).size = 12
    /\ LET r == proofs(log, prefix_proof_positions(12, 13))
       IN  /\ r.status = "ok"
           /\ verify_tree(PrefixWitness(12), r.map)
           /\ verify_tree(log_latest(log), r.map)

\* C21. When check_record is called with a witness of size 0 (every id is
\* then >= the witness size), the advance step fetches latest(), verifies no
\* consistency and asks for no consistency proof (a failing proofs() there
\* changes nothing, and the cache is as before), and the witness is the
\* fetched (size, root) before the inclusion step and after the call.
C21_FirstAdvanceUnchecked ==
    latest.size = 0 =>
        /\ \A a \in {advance(latest, cache, log, "prefix_proofs")} :
               /\ a.status = "ok" /\ a.value
               /\ a.latest = log_latest(log)
               /\ a.cache = cache
        /\ advance(latest, cache, log, "latest").status = "error"
        /\ \A id \in 0..MaxId : \A h \in ClaimHashes(id) :
               \A o \in {Checked(id, h)} :
                   /\ o.latest = log_latest(log)
                   /\ o = check_record(latest, cache, log, Record(id, h), "prefix_proofs")

\* a client went from the witness of size 0 to the latest one in one call:
\* its cache holds the inclusion positions of the claim and no other
C21_Witness ==
    /\ op.name = "check_record"
    /\ ret = Ok(TRUE)
    /\ Len(data) >= 3
    /\ latest = log_latest(log)
    /\ op.id < latest.size
    /\ cache.some
    /\ DOMAIN cache.map = proof_positions(op.id, latest.size)

\* C22. When check_record is called with an id below the witness size, it
\* does not call latest() (a failing latest(), or a failing consistency
\* proofs(), changes no outcome) and the witness after the call is the
\* witness before it, whatever the result and however many records the log
\* has got since the witness was taken.
C22_KnownIdKeepsWitness ==
    \A id \in 0..(latest.size - 1) : \A h \in ClaimHashes(id) :
        \A o \in {Checked(id, h)} :
            /\ o.latest = latest
            /\ o = check_record(latest, cache, log, Record(id, h), "latest")
            /\ o = check_record(latest, cache, log, Record(id, h), "prefix_proofs")
            /\ check_record(latest, cache, log, Record(id, h), "proofs").latest = latest

\* a record below a witness that is two or more appends old was accepted,
\* and the witness is still the old one
C22_Witness ==
    /\ op.name = "check_record"
    /\ ret = Ok(TRUE)
    /\ op.id < latest.size
    /\ latest.size + 2 <= Len(data)
    /\ latest = PrefixWitness(latest.size)

\* the position sets check_record may pass to get_proofs in this state
RequestSets ==
    {proof_positions(id, latest.size) : id \in 0..MaxId}
        \cup (IF prefix_precondition(latest.size, Len(data))
              THEN {prefix_proof_positions(latest.size, Len(data))}
              ELSE {})
        \cup {proof_positions(id, Len(data)) : id \in 0..MaxId}

\* every position of a request set
RequestSetsAll == UNION RequestSets

\* C24. In get_proofs no position for which client.cached returns a hash is
\* passed to the log's proofs operation, and the returned map is the union
\* of the cached hashes and the hashes read: it has an entry, with that
\* hash, for every requested position the cache held or the log returned,
\* and no other entry.
C24_CachedNotRequested ==
    \A positions \in RequestSets :
        \A g \in {get_proofs(cache, log, positions, FALSE)} :
            /\ DOMAIN g.read \cap cached(cache, positions) = {}
            /\ g.status = "ok" =>
                   /\ DOMAIN g.map = DOMAIN g.read \cup cached(cache, positions)
                   /\ \A p \in cached(cache, positions) : g.map[p] = cache.map[p]
                   /\ \A p \in DOMAIN g.read : g.map[p] = g.read[p]

\* a request of which the cache holds a part and the log returns the rest
C24_Witness ==
    /\ op.name = "check_record"
    /\ cache.some
    /\ \E positions \in RequestSets :
           /\ cached(cache, positions) # {}
           /\ get_proofs(cache, log, positions, FALSE).status = "ok"
           /\ DOMAIN get_proofs(cache, log, positions, FALSE).read # {}

\* C25. With the cache enabled, after a check_record call every position
\* whose hash the log returned during that call is in the cache with that
\* hash; the cache of a client built with no_cache() stays None, so that
\* cached(p) is None for every position p before and after every call.
C25_CacheHoldsReads ==
    \A id \in 0..MaxId : \A fault \in Faults : \A h \in {hash(Rec(id)), Bogus} :
        \A o \in {check_record(latest, cache, log, Record(id, h), fault)} :
            \A r \in {check_record_reads(latest, cache, log, Record(id, h), fault)} :
                IF cache.some
                THEN /\ o.cache.some
                     /\ \A p \in DOMAIN r :
                            p \in cached(o.cache, {p}) /\ o.cache.map[p] = r[p]
                ELSE /\ cache = NoCache
                     /\ o.cache = NoCache
                     /\ cached(cache, RequestSetsAll) = {}
                     /\ cached(o.cache, RequestSetsAll) = {}

\* a call on a caching client that advanced the witness and cached the
\* hashes of both the consistency proof and the inclusion proof
C25_Witness ==
    /\ op.name = "check_record"
    /\ ret = Ok(TRUE)
    /\ cache.some
    /\ Len(data) >= 4
    /\ latest = log_latest(log)
    /\ \E m \in 1..(Len(data) - 1) :
           /\ prefix_precondition(m, Len(data))
           /\ prefix_proof_positions(m, Len(data)) \subseteq DOMAIN cache.map
           /\ proof_positions(op.id, Len(data)) \subseteq DOMAIN cache.map
           /\ ~(proof_positions(op.id, Len(data)) \subseteq prefix_proof_positions(m, Len(data)))

\* roots and proof maps a caller may hand to verify and verify_tree
ProbeRoots == {Empty, Bogus, hash(Rec(0)), latest.hash, log_latest(log).hash}
ProbeProofs ==
    {EmptyMap, StoredMap(log), cache.map, [p \in {Pos(0, 0)} |-> hash(Rec(0))],
     [p \in {Pos(0, 0)} |-> Empty]}

\* C26. Against an empty log, a client with witness (0, "") gets false,
\* neither an error nor an abort, from check_record for every claim
\* (id, hash); verify and verify_tree return false for every witness of
\* size 0, whatever the proofs and the root.
C26_EmptyLogFalse ==
    /\ (Len(data) = 0 /\ latest = LogTree(0, Empty)) =>
           \A id \in 0..MaxId : \A h \in ClaimHashes(id) :
               Checked(id, h) = Outcome("ok", FALSE, latest, cache)
    /\ \A root \in ProbeRoots : \A m \in ProbeProofs :
           /\ ~verify_tree(LogTree(0, root), m)
           /\ \A id \in 0..MaxId : \A h \in ClaimHashes(id) :
                  ~verify(LogTree(0, root), Record(id, h), m)

\* a claim checked against the empty log and answered false
C26_Witness ==
    /\ op.name = "check_record" /\ op.id > 0
    /\ ret = Ok(FALSE)
    /\ Len(data) = 0
    /\ latest = LogTree(0, Empty)

\* ------------------------------------------------------------------ 13-record client specification
\* client_13: a client built on the empty log checks records 8 and 9 of a
\* log that append_multiple grows to 13 records.

AppendClient ==
    /\ Running
    /\ Len(data) < MaxClientLog
    /\ \E l \in {append(log, Rec(Len(data)))} :
           /\ data' = l.data
           /\ hashes' = l.hashes
    /\ op' = CallOp("append", Len(data))
    /\ ret' = Ok(TRUE)
    /\ UNCHANGED <<latest, cache, filelog, rocksdb>>

NextClient ==
    \/ AppendClient
    \/ \E id \in {8, 9} : CheckRecord(id, hash(Rec(id)), "none")

SpecClient == Init /\ [][NextClient]_vars

\* the first call of client_13: a caching client at (0, "") checks
\* (9, h_9) against the 13-record log and gets true
FirstCheck13 ==
    /\ latest = LogTree(0, Empty)
    /\ cache = NewCache
    /\ Len(data) = 13
    /\ op' = CallOp("check_record", 9)
    /\ ret' = Ok(TRUE)

\* C12 as stated: after that first call, a check_record((8, h_8)) asks the
\* log for no position, every position of proof_positions(8, 13) being in
\* the cache.
C12_SecondCheckReadsNothing ==
    [][FirstCheck13 =>
          /\ proof_positions(8, 13) \subseteq DOMAIN cache'.map
          /\ DOMAIN get_proofs(cache', log, proof_positions(8, 13), FALSE).read = {}]_vars

\* C12 amended: after that first call the cache holds the four positions of
\* proof_positions(9, 13), and a check_record((8, h_8)) asks the log for
\* exactly the position (0, 9), taking the other three from the cache.
C12_SecondCheckReadsLeaf9 ==
    [][FirstCheck13 =>
          /\ DOMAIN cache'.map = proof_positions(9, 13)
          /\ DOMAIN get_proofs(cache', log, proof_positions(8, 13), FALSE).read
                 = {Pos(0, 9)}]_vars

\* the second call returned true and added (0, 9) to the four cached hashes
C12_Witness ==
    /\ Len(data) = 13
    /\ op = CallOp("check_record", 8)
    /\ ret = Ok(TRUE)
    /\ latest = log_latest(log)
    /\ cache.some
    /\ DOMAIN cache.map = proof_positions(9, 13) \cup {Pos(0, 9)}

\* C23. Stale-witness tolerance: if the proofs over proof_positions(i, N)
\* read when the log had N records make verify accept (i, leaf hash of
\* record i) under the witness of size N, so do the proofs for the same
\* positions read from the log as it is after further appends.
C23_StaleWitnessTolerated ==
    \A N \in 1..Len(data) :
        \A old \in {replay(SubSeq(data, 1, N))} : \A w \in {log_latest(old)} :
            \A i \in 0..(N - 1) :
                \A then \in {proofs(old, proof_positions(i, N))} :
                    (then.status = "ok" /\ verify(w, Record(i, hash(data[i + 1])), then.map))
                        => \A now \in {proofs(log, proof_positions(i, N))} :
                               /\ now.status = "ok"
                               /\ verify(w, Record(i, hash(data[i + 1])), now.map)

\* a client holding the witness of size 10 had record 8 accepted with
\* proofs read from the log of 13 records
C23_Witness ==
    /\ Len(data) = 13
    /\ op = CallOp("check_record", 8)
    /\ ret = Ok(TRUE)
    /\ latest = PrefixWitness(10)

\* ------------------------------------------------------------------ storage specification
\* The callers of empty, add and test_13: the same records are appended to
\* an in-memory log, to a file log and to a RocksDB log, and the logs are
\* read back.

\* append_multiple on a FileLog opened on an empty directory
RECURSIVE file_replay(_)
file_replay(records) ==
    IF records = <<>> THEN EmptyFileLog
    ELSE file_append(file_replay(SubSeq(records, 1, Len(records) - 1)),
                     records[Len(records)]).log

\* the file log fed the records the in-memory log holds
files == file_replay(data)

\* append_multiple on a RocksDBLog opened on an empty directory
RECURSIVE rocks_replay(_)
rocks_replay(records) ==
    IF records = <<>> THEN EmptyRocksDBLog
    ELSE rocks_append(rocks_replay(SubSeq(records, 1, Len(records) - 1)),
                      records[Len(records)]).log

\* the RocksDB log fed the records the in-memory log holds
rocks == rocks_replay(data)

\* the positions a caller asks proofs() for: up to one level and one index
\* past the largest tree
ProbePositions == {Pos(l, i) : <<l, i>> \in (0..4) \X (0..MaxStore)}

\* the position sets a caller passes to proofs(): a single position, or a
\* position together with the first leaf
ProbeSets == {{p} : p \in ProbePositions} \cup {{Pos(0, 0), p} : p \in ProbePositions}

\* append on both logs; ret is what InMemoryLog::append returns
MemoryAppend ==
    /\ Running
    /\ Len(data) < MaxStore
    /\ ret' = Ok(append_returns(log, Rec(Len(data))))
    /\ \E l \in {append(log, Rec(Len(data)))} :
           /\ data' = l.data
           /\ hashes' = l.hashes
    /\ op' = CallOp("memory.append", Len(data))
    /\ UNCHANGED <<latest, cache, filelog, rocksdb>>

\* append on both logs; ret is what FileLog::append returns
FileAppend ==
    /\ Running
    /\ Len(data) < MaxStore
    /\ \E a \in {file_append(files, Rec(Len(data)))} :
           ret' = Ok(Record(a.id, a.hash))
    /\ \E l \in {append(log, Rec(Len(data)))} :
           /\ data' = l.data
           /\ hashes' = l.hashes
    /\ op' = CallOp("file.append", Len(data))
    /\ UNCHANGED <<latest, cache, filelog, rocksdb>>

\* append on the logs; ret is what the trait's append returns on RocksDBLog
RocksAppend ==
    /\ Running
    /\ Len(data) < MaxStore
    /\ \E a \in {rocks_append(rocks, Rec(Len(data)))} :
           ret' = [status |-> a.status, value |-> Record(a.id, a.hash)]
    /\ \E l \in {append(log, Rec(Len(data)))} :
           /\ data' = l.data
           /\ hashes' = l.hashes
    /\ op' = CallOp("rocks.append", Len(data))
    /\ UNCHANGED <<latest, cache, filelog, rocksdb>>

RocksGet(id) ==
    /\ Running
    /\ ret' = Ok(rocks_get(rocks, id))
    /\ op' = CallOp("rocks.get", id)
    /\ UNCHANGED <<data, hashes, latest, cache, filelog, rocksdb>>

MemoryGet(id) ==
    /\ Running
    /\ ret' = Ok(get(log, id))
    /\ op' = CallOp("memory.get", id)
    /\ UNCHANGED <<data, hashes, latest, cache, filelog, rocksdb>>

FileGet(id) ==
    /\ Running
    /\ ret' = file_get(files, id)
    /\ op' = CallOp("file.get", id)
    /\ UNCHANGED <<data, hashes, latest, cache, filelog, rocksdb>>

MemoryProofs(positions) ==
    /\ Running
    /\ \E r \in {proofs(log, positions)} : ret' = [status |-> r.status, value |-> r.map]
    /\ op' = CallOp("memory.proofs", positions)
    /\ UNCHANGED <<data, hashes, latest, cache, filelog, rocksdb>>

FileProofs(positions) ==
    /\ Running
    /\ \E r \in {file_proofs(files, positions)} :
           ret' = [status |-> r.status, value |-> r.map]
    /\ op' = CallOp("file.proofs", positions)
    /\ UNCHANGED <<data, hashes, latest, cache, filelog, rocksdb>>

MemoryLatest ==
    /\ Running
    /\ ret' = Ok(log_latest(log))
    /\ op' = CallOp("memory.latest", Len(data))
    /\ UNCHANGED <<data, hashes, latest, cache, filelog, rocksdb>>

FileLatest ==
    /\ Running
    /\ ret' = Ok(file_latest(files))
    /\ op' = CallOp("file.latest", Len(data))
    /\ UNCHANGED <<data, hashes, latest, cache, filelog, rocksdb>>

NextLog ==
    \/ MemoryAppend
    \/ FileAppend
    \/ RocksAppend
    \/ \E id \in 0..(MaxStore + 1) : RocksGet(id)
    \/ \E id \in 0..(MaxStore + 1) : MemoryGet(id)
    \/ \E id \in 0..(MaxStore + 1) : FileGet(id)
    \/ \E positions \in ProbeSets : MemoryProofs(positions)
    \/ \E positions \in ProbeSets : FileProofs(positions)
    \/ MemoryLatest
    \/ FileLatest

SpecLog == Init /\ [][NextLog]_vars

\* C14. append on a log holding n records returns the new record's id n (the
\* size before the call), and, where it returns a hash, the leaf hash of the
\* record.
C14_AppendReturnsId ==
    /\ (op.name = "memory.append" => ret = Ok(op.id))
    /\ (op.name \in {"file.append", "rocks.append"} =>
            ret = Ok(Record(op.id, hash(data[op.id + 1]))))

\* C15. For a log of n records (n = 0 included), get(id) returns Some(the
\* record appended with id) when id < n and None, not an error, when id >= n.
C15_GetSomeOrNone ==
    op.name \in {"memory.get", "file.get", "rocks.get"} =>
        ret = Ok(IF op.id < Len(data) THEN Some(data[op.id + 1]) ELSE None)

\* the stored hashes of the requested positions that lie inside the tree
StoredOf(positions) ==
    [p \in {q \in positions : Stored(log, q)} |-> hashes[p.level + 1][p.index + 1]]

\* C16. proofs(positions) returns a map holding the stored hash of every
\* requested position inside the tree and no entry for a requested position
\* that is not stored; it neither fails nor aborts.
C16_ProofsOmitUnknown ==
    op.name \in {"memory.proofs", "file.proofs"} =>
        ret = [status |-> "ok", value |-> StoredOf(op.id)]

\* everything of sequence a is in sequence b, at the same place
IsPrefix(a, b) == Len(a) <= Len(b) /\ \A i \in 1..Len(a) : b[i] = a[i]

\* every level of hs is in hs2, with every hash at the same index
LevelsKept(hs, hs2) ==
    Len(hs) <= Len(hs2) /\ \A k \in 1..Len(hs) : IsPrefix(hs[k], hs2[k])

\* every entry of map a is in map b, with the same value
MapKept(a, b) == \A p \in DOMAIN a : p \in DOMAIN b /\ b[p] = a[p]

\* C18. Append-only storage: a step never changes or removes a record or a
\* node hash that was stored before it, in the in-memory log, in the files
\* of the file log and in the column families of the RocksDB log; so a
\* position stored at size n holds the same hash at every later size.
C18_AppendOnly ==
    [][IF data' = data THEN hashes' = hashes
       ELSE /\ IsPrefix(data, data')
            /\ LevelsKept(hashes, hashes')
            /\ \A f \in {files} : \A f2 \in {file_replay(data')} :
                   /\ IsPrefix(f.index, f2.index)
                   /\ IsPrefix(f.data, f2.data)
                   /\ LevelsKept(f.hashes, f2.hashes)
            /\ \A r \in {rocks} : \A r2 \in {rocks_replay(data')} :
                   /\ r2.size >= r.size
                   /\ MapKept(r.data, r2.data)
                   /\ MapKept(r.hashes, r2.hashes)]_vars

\* the eighth append stored a node on four levels of each log, above
\* the seven records and the hashes stored before
C18_Witness ==
    /\ op.name \in {"memory.append", "file.append", "rocks.append"}
    /\ Len(data) = 8
    /\ Len(hashes) = 4 /\ Len(hashes[4]) = 1
    /\ Len(files.hashes) = 4 /\ Len(files.index) = 8
    /\ Pos(3, 0) \in DOMAIN rocks.hashes
    /\ rocks.hashes = StoredMap(log)

\* the first element is n and each following one is half the one before it,
\* rounded down
Halving(s, n) == s[1] = n /\ \A i \in 2..Len(s) : s[i] = s[i - 1] \div 2

\* 2^k
RECURSIVE Pow2(_)
Pow2(k) == IF k = 0 THEN 1 ELSE 2 * Pow2(k - 1)

\* C19 as stated: tree_sizes(n) is empty for n = 0; otherwise its first
\* element is n, each following element is floor(previous / 2), and the list
\* ends with the first element that is <= 1 while its predecessor was > 1.
C19_SizesEndAtFirstOne ==
    LET n == Len(data)
        s == tree_sizes(n)
    IN  IF n = 0 THEN s = <<>>
        ELSE /\ s # <<>> /\ Halving(s, n)
             /\ n > 1 =>
                    /\ Len(s) >= 2
                    /\ s[Len(s)] <= 1 /\ s[Len(s) - 1] > 1
                    /\ \A i \in 2..(Len(s) - 1) : ~(s[i] <= 1 /\ s[i - 1] > 1)

\* C19 amended: tree_sizes(n) is empty for n = 0; otherwise its first
\* element is n, each following element is floor(previous / 2), and the list
\* ends with the element of the first level k with 2^k >= n, which is 1 when
\* n is a power of two and 0 otherwise.
C19_SizesEndAtTopLevel ==
    LET n == Len(data)
        s == tree_sizes(n)
    IN  IF n = 0 THEN s = <<>>
        ELSE /\ s # <<>> /\ Halving(s, n)
             /\ Pow2(Len(s) - 1) >= n
             /\ (Len(s) >= 2 => Pow2(Len(s) - 2) < n)
             /\ s[Len(s)] = (IF Pow2(Len(s) - 1) = n THEN 1 ELSE 0)

\* a log of 13 records: the level sizes end with 1 and then 0
C19_Witness ==
    /\ Len(data) = 13
    /\ tree_sizes(Len(data)) = <<13, 6, 3, 1, 0>>
    /\ tree_sizes(8) = <<8, 4, 2, 1>>

\* C20. Append determinism: an in-memory log and a file log fed the same
\* records, and two in-memory logs fed the same records, return the same
\* latest() (size and root) after every append.
C20_AppendDeterministic ==
    /\ file_latest(files) = log_latest(log)
    /\ log_latest(replay(data)) = log_latest(log)
    /\ (op.name \in {"memory.latest", "file.latest"} => ret = Ok(log_latest(log)))

\* latest() of the file log after 7 appends: a root folded from three
\* frontier hashes, the one the in-memory log returns
C20_Witness ==
    /\ op.name = "file.latest"
    /\ Len(data) = 7
    /\ Len(file_frontier(files.hashes, Len(files.hashes))) = 3
    /\ ret.value = log_latest(log)
    /\ ret.value.hash # Empty

\* the nodes a file log stores, with their hashes
FileStoredMap == StoredMap(InMemoryLog(data, files.hashes))

\* n leaves in the map m, in the shape push_hash builds
TreeShape(m, n) ==
    /\ \A i \in 0..MaxStore + 1 :
           /\ Pos(0, i) \in DOMAIN m <=> i < n
           /\ i < n => m[Pos(0, i)] = hash(data[i + 1])
    /\ \A k \in 0..4 : \A j \in 0..MaxStore + 1 :
           /\ Pos(k + 1, j) \in DOMAIN m
                  <=> (Pos(k, 2 * j) \in DOMAIN m /\ Pos(k, 2 * j + 1) \in DOMAIN m)
           /\ Pos(k + 1, j) \in DOMAIN m =>
                  m[Pos(k + 1, j)] = hash_two_strings(m[Pos(k, 2 * j)], m[Pos(k, 2 * j + 1)])

\* C27. Tree shape: after any n appends, an interior node (k+1, j) is
\* stored exactly when both its children (k, 2j) and (k, 2j+1) are
\* stored, and its hash is H(hash(k, 2j) concatenated with hash(k, 2j+1));
\* the level-0 node (0, i) holds the leaf hash of record i. In the
\* in-memory log, in the file log and in the RocksDB log.
C27_TreeShape ==
    /\ TreeShape(StoredMap(log), Len(data))
    /\ TreeShape(FileStoredMap, Len(data))
    /\ TreeShape(rocks.hashes, Len(data))

\* seven records: (2, 0) stored over its two children, (1, 2) stored, (1, 3)
\* and (2, 1) not
C27_Witness ==
    /\ op.name \in {"memory.append", "file.append", "rocks.append"}
    /\ Len(data) = 7
    /\ Pos(2, 0) \in DOMAIN StoredMap(log)
    /\ Pos(1, 2) \in DOMAIN FileStoredMap
    /\ Pos(1, 3) \notin DOMAIN rocks.hashes
    /\ Pos(2, 1) \notin DOMAIN StoredMap(log)

\* the number of hashes a log stores at level k, in the vector of vectors
\* of the in-memory log or the hash files of the file log
LevelCount(hs, k) == IF k < Len(hs) THEN Len(hs[k + 1]) ELSE 0

\* C28. Geometry matches storage: after any n > 0 appends, for every level
\* k < len(tree_sizes(n)) the number of hashes stored at level k equals
\* tree_sizes(n)[k] (a level that is not stored counting as 0), and no hash
\* is stored at a level >= len(tree_sizes(n)).
C28_GeometryMatchesStorage ==
    LET n == Len(data)
        s == tree_sizes(n)
    IN  n > 0 =>
            /\ \A k \in 0..(Len(s) - 1) :
                   /\ LevelCount(hashes, k) = s[k + 1]
                   /\ LevelCount(files.hashes, k) = s[k + 1]
                   /\ Cardinality({p \in DOMAIN rocks.hashes : p.level = k}) = s[k + 1]
            /\ Len(hashes) <= Len(s)
            /\ Len(files.hashes) <= Len(s)
            /\ \A p \in DOMAIN rocks.hashes : p.level < Len(s)

\* five records: three stored levels under level sizes 5, 2, 1, 0
C28_Witness ==
    /\ op.name \in {"memory.append", "file.append", "rocks.append"}
    /\ Len(data) = 5
    /\ tree_sizes(5) = <<5, 2, 1, 0>>
    /\ Len(hashes) = 3
    /\ LevelCount(hashes, 1) = 2

\* ceil(log2(n)) for n > 0: the least k with 2^k >= n
RECURSIVE CeilLog2From(_, _)
CeilLog2From(n, k) == IF Pow2(k) >= n THEN k ELSE CeilLog2From(n, k + 1)
CeilLog2(n) == CeilLog2From(n, 0)

\* C29. For every n > 0, tree_sizes(n) has exactly ceil(log2(n)) + 1
\* elements, its element k equals floor(n / 2^k), and its last element is
\* 1 when n is a power of two and 0 otherwise.
C29_SizesCountAndValues ==
    \A n \in {Len(data)} \cup (1..MaxSize) :
        n > 0 => \A s \in {tree_sizes(n)} : \A c \in {CeilLog2(n)} :
            /\ Len(s) = c + 1
            /\ \A k \in 0..c : s[k + 1] = n \div Pow2(k)
            /\ s[c + 1] = (IF Pow2(c) = n THEN 1 ELSE 0)

\* a log grown to 8 records: four levels ending in 1, after five ending in 0
C29_Witness ==
    /\ op = CallOp("append", 7)
    /\ Len(data) = 8
    /\ tree_sizes(Len(data)) = <<8, 4, 2, 1>>
    /\ tree_sizes(Len(data) - 1) = <<7, 3, 1, 0>>
    /\ tree_sizes(MaxSize) # <<>>

\* C30. For every n > 0 and 0 <= i < n, proof_positions(i, n) contains at
\* most ceil(log2(n)) positions.
C30_ProofLogarithmic ==
    \A n \in {Len(data)} \cup (1..MaxSize) :
        n > 0 => \A c \in {CeilLog2(n)} :
            \A i \in 0..(n - 1) : Cardinality(proof_positions(i, n)) <= c

\* record 0 of 13 verified with a proof of ceil(log2(13)) = 4 positions
C30_Witness ==
    /\ Len(data) = 13
    /\ op = CallOp("verify", 0)
    /\ Cardinality(proof_positions(0, Len(data))) = 4
    /\ CeilLog2(13) = 4

\* index XOR 1: the index of the sibling of a node
Sibling(index) == IF index % 2 = 0 THEN index + 1 ELSE index - 1

\* the siblings of the path from leaf i to the root of a tree of 2^k leaves
SiblingPath(i, k) == {Pos(l, Sibling(i \div Pow2(l))) : l \in 0..(k - 1)}

\* C31. For n = 2^k (k >= 0) and every i < n, proof_positions(i, n) is
\* exactly the set of the k sibling positions (l, floor(i / 2^l) XOR 1),
\* 0 <= l < k, of the path from leaf i to the root.
C31_PowerOfTwoSiblings ==
    \A n \in {Len(data)} \cup (1..MaxSize) :
        n > 0 => \A k \in {CeilLog2(n)} :
            Pow2(k) = n =>
                \A i \in 0..(n - 1) :
                    /\ proof_positions(i, n) = SiblingPath(i, k)
                    /\ Cardinality(proof_positions(i, n)) = k

\* record 5 of 8 verified with the three siblings of its path
C31_Witness ==
    /\ Len(data) = 8
    /\ op = CallOp("verify", 5)
    /\ ret = Ok(TRUE)
    /\ proof_positions(5, Len(data)) = {Pos(0, 4), Pos(1, 3), Pos(2, 0)}

\* the levels below the top level whose count is odd
OddLevels(s) == {l \in 0..(Len(s) - 2) : s[l + 1] % 2 = 1}

\* the right-frontier position of a tree of n leaves: the last node of the
\* lowest level below the top whose count is odd, if there is one
RightFrontier(n) ==
    LET s == tree_sizes(n)
        o == OddLevels(s)
    IN  IF o = {} THEN {}
        ELSE LET l == CHOOSE x \in o : \A y \in o : x <= y
             IN  {Pos(l, s[l + 1] - 1)}

\* C32. For every 0 < m < n, prefix_proof_positions(m, n) equals
\* proof_positions(m, n) union proof_positions(m-1, n) union F, where F is
\* the single position (l, tree_sizes(n)[l] - 1) for the lowest level l
\* below the top level whose count is odd, and F is empty when there is no
\* such level, in particular when n is a power of two.
C32_PrefixPositions ==
    \A n \in {Len(data)} \cup (2..MaxSize) :
        n > 1 => \A f \in {RightFrontier(n)} :
            /\ Cardinality(f) <= 1
            /\ Pow2(CeilLog2(n)) = n => f = {}
            /\ \A m \in 1..(n - 1) :
                   prefix_proof_positions(m, n)
                       = proof_positions(m, n) \cup proof_positions(m - 1, n) \cup f

\* the prefix proof of the 13-record log: the frontier position (0, 12) is
\* in it and in neither inclusion proof; at size 8 there is none
C32_Witness ==
    /\ Len(data) = 13
    /\ op = CallOp("verify_tree", 6)
    /\ RightFrontier(Len(data)) = {Pos(0, 12)}
    /\ Pos(0, 12) \in prefix_proof_positions(6, Len(data))
    /\ Pos(0, 12) \notin proof_positions(6, Len(data)) \cup proof_positions(5, Len(data))
    /\ RightFrontier(8) = {}

\* a node of a tree of n leaves: index < tree_sizes(n)[level]
InTree(p, n) ==
    LET s == tree_sizes(n)
    IN  p.level < Len(s) /\ p.index < s[p.level + 1]

\* C33. Every position produced by proof_positions(i, n) for 0 <= i < n,
\* and by prefix_proof_positions(m, n) for 0 < m < n, is a node stored in
\* a log of size n (index < tree_sizes(n)[level], level below
\* len(tree_sizes(n))), so that the log's proofs operation on these sets
\* returns a hash for each position without error.
C33_ProofPositionsStored ==
    /\ \A n \in {Len(data)} \cup (1..MaxSize) :
           n > 0 =>
               /\ \A i \in 0..(n - 1) : \A p \in proof_positions(i, n) : InTree(p, n)
               /\ \A m \in 1..(n - 1) :
                      \A p \in prefix_proof_positions(m, n) : InTree(p, n)
    /\ \A i \in 0..(Len(data) - 1) :
           \A r \in {proofs(log, proof_positions(i, Len(data)))} :
               r.status = "ok" /\ DOMAIN r.map = proof_positions(i, Len(data))
    /\ \A m \in 1..(Len(data) - 1) :
           \A r \in {proofs(log, prefix_proof_positions(m, Len(data)))} :
               r.status = "ok" /\ DOMAIN r.map = prefix_proof_positions(m, Len(data))
    /\ (op.name \in {"verify", "verify_tree"} => ret.status = "ok")

\* the proof of record 11 of 13 read from the log: (0, 12) comes from the
\* descent below the missing sibling (2, 3)
C33_Witness ==
    /\ Len(data) = 13
    /\ op = CallOp("verify", 11)
    /\ proof_positions(11, Len(data)) = {Pos(0, 10), Pos(1, 4), Pos(0, 12), Pos(3, 0)}
    /\ \A p \in proof_positions(11, Len(data)) : Stored(log, p)

\* the number of node hashes a log stores, over its levels 0..k-1
RECURSIVE HashCount(_, _)
HashCount(hs, k) == IF k = 0 THEN 0 ELSE Len(hs[k]) + HashCount(hs, k - 1)

\* floor(log2(n)) for n > 0
FloorLog2(n) == CeilLog2(n + 1) - 1

\* the node hashes an append step writes in the in-memory log
Written == HashCount(hashes', Len(hashes')) - HashCount(hashes, Len(hashes))

\* the node hashes the RocksDB log holds more in r2 than in r
RocksWritten(r, r2) == Cardinality(DOMAIN r2.hashes) - Cardinality(DOMAIN r.hashes)

\* C34 as stated: the append that brings the log to size n writes at most
\* ceil(log2(n)) node hashes (leaf hash included), for every n >= 1.
C34_WritesAtMostCeilLog ==
    [][IF data' = data THEN hashes' = hashes
       ELSE \A w \in {Written} : \A r \in {rocks} : \A r2 \in {rocks_replay(data')} :
                /\ w <= CeilLog2(Len(data'))
                /\ RocksWritten(r, r2) <= CeilLog2(Len(data'))]_vars

\* C34 amended: the append that brings the log to size n writes at least the
\* leaf hash and at most floor(log2(n)) + 1 node hashes (leaf hash
\* included), for every n >= 1.
C34_WritesAtMostFloorLogPlusOne ==
    [][IF data' = data THEN hashes' = hashes
       ELSE \A w \in {Written} : \A r \in {rocks} : \A r2 \in {rocks_replay(data')} :
                /\ 1 <= w /\ w <= FloorLog2(Len(data')) + 1
                /\ RocksWritten(r, r2) = w]_vars

\* the append that brings the log to 8 records has written 4 hashes, one
\* more than ceil(log2(8))
C34_Witness ==
    /\ op.name \in {"memory.append", "rocks.append"}
    /\ Len(data) = 8
    /\ HashCount(hashes, Len(hashes)) = 15
    /\ \A before \in {replay(SubSeq(data, 1, 7))} :
           HashCount(before.hashes, Len(before.hashes)) = 11
    /\ CeilLog2(8) = 3

\* a LogSize of LogSizeBits bits holds the values 0..LogSizeMax
LogSizeBits == 4
LogSizeMax == Pow2(LogSizeBits) - 1

Max2(a, b) == IF a >= b THEN a ELSE b

\* the largest value height * 2 takes in the loop of tree_sizes
RECURSIVE tree_sizes_peak(_, _, _)
tree_sizes_peak(sz, height, size) ==
    IF height < size /\ sz > 0
    THEN Max2(height * 2,
              tree_sizes_peak(IF sz = 1 THEN 0 ELSE sz \div 2, height * 2, size))
    ELSE 0

\* the largest value new_index * 2 takes in the while loop of proof_step
RECURSIVE proof_descend_peak(_, _, _)
proof_descend_peak(new_level, new_index, sizes) ==
    IF new_level > 0
    THEN LET l == new_level - 1
             i == new_index * 2
         IN  IF i < sizes[l + 1] THEN i ELSE Max2(i, proof_descend_peak(l, i, sizes))
    ELSE 0

\* the largest value index + 1 or new_index * 2 takes in proof_step
RECURSIVE proof_step_peak(_, _, _, _)
proof_step_peak(level, index, size, sizes) ==
    LET here == IF index % 2 = 0
                THEN Max2(index + 1,
                          IF index + 1 < size THEN 0
                          ELSE proof_descend_peak(level, index + 1, sizes))
                ELSE 0
    IN  Max2(here, IF level < Len(sizes) - 1
                   THEN proof_step_peak(level + 1, index \div 2, size \div 2, sizes)
                   ELSE 0)

\* the largest intermediate value of proof_positions(index, size)
proof_positions_peak(index, size) ==
    Max2(tree_sizes_peak(size, 1, size),
         proof_step_peak(0, index, size, tree_sizes(size)))

\* C38. For a LogSize of w bits, tree_sizes(n), proof_positions(i, n) and
\* prefix_proof_positions(m, n) terminate without any intermediate value
\* (height * 2, index + 1, new_index * 2) exceeding 2^w - 1, for every n,
\* i, m representable in w bits with i < n and 0 < m < n. Here w is
\* LogSizeBits and n is the size of the log the proof is computed for.
C38_NoOverflow ==
    (op.name \in {"verify", "verify_tree"} /\ Len(data) <= LogSizeMax) =>
        \A i \in 0..(Len(data) - 1) :
            proof_positions_peak(i, Len(data)) <= LogSizeMax

\* ------------------------------------------------------------------ fault specification
\* A file log or a RocksDB log opened on an empty directory, appended to
\* with backend calls that may return Err, read with get_hash, and dropped
\* and opened again (file_13, rocksdb_13). A behaviour uses one of the two
\* logs; the other one stays empty.

\* the backend calls of an append that may fail
FileFaults ==
    {NoFault, Fault("data", 0), Fault("index", 0)}
        \cup {Fault(point, l) : point \in {"write", "read"}, l \in 0..MaxFaultLevel}
RocksFaults ==
    {NoFault, Fault("add", 0)}
        \cup {Fault(point, l) : point \in {"add_hash", "get_hash"}, l \in 0..MaxFaultLevel}

FaultFileAppend(fault) ==
    /\ Running
    /\ rocksdb = EmptyRocksDBLog
    /\ Len(filelog.index) < MaxFault
    /\ Len(filelog.data) < 2 * MaxFault
    /\ \E a \in {file_append_fault(filelog, Rec(Len(filelog.index)), fault)} :
           /\ filelog' = a.log
           /\ ret' = [status |-> a.status,
                      value |-> IF a.status = "ok" THEN Record(a.id, a.hash) ELSE FALSE]
    /\ op' = CallOp("file.append", fault)
    /\ UNCHANGED <<data, hashes, latest, cache, rocksdb>>

FaultRocksAppend(fault) ==
    /\ Running
    /\ filelog = EmptyFileLog
    /\ rocksdb.size < MaxFault
    /\ \E a \in {rocks_append_fault(rocksdb, Rec(rocksdb.size), fault)} :
           /\ rocksdb' = a.log
           /\ ret' = [status |-> a.status,
                      value |-> IF a.status = "ok" THEN Record(a.id, a.hash) ELSE FALSE]
    /\ op' = CallOp("rocks.append", fault)
    /\ UNCHANGED <<data, hashes, latest, cache, filelog>>

RocksGetHash(level, index) ==
    /\ Running
    /\ \E r \in {rocks_get_hash(rocksdb, level, index)} :
           ret' = [status |-> r.status, value |-> r.hash]
    /\ op' = CallOp("rocks.get_hash", Pos(level, index))
    /\ UNCHANGED <<data, hashes, latest, cache, filelog, rocksdb>>

\* drop(ml) and open on the same directory, for both logs
Reopen ==
    /\ Running
    /\ filelog' = file_open(file_close(filelog))
    /\ rocksdb' = rocks_open(rocks_close(rocksdb))
    /\ op' = CallOp("reopen", NoFault)
    /\ ret' = Ok(TRUE)
    /\ UNCHANGED <<data, hashes, latest, cache>>

NextFault ==
    \/ \E fault \in FileFaults : FaultFileAppend(fault)
    \/ \E fault \in RocksFaults : FaultRocksAppend(fault)
    \/ \E level \in 0..(MaxFaultLevel + 1), index \in 0..MaxFault : RocksGetHash(level, index)
    \/ Reopen

SpecFault == Init /\ [][NextFault]_vars

\* the records a file log holds, read through index.bin as get reads them
FileRecords(fl) ==
    [i \in 1..Len(fl.index) |->
        from_read_ref(SubSeq(fl.data, fl.index[i].offset + 1,
                             fl.index[i].offset + fl.index[i].length))]

\* C35. Append is atomic with respect to backend errors: in every
\* reachable state, including the state after an append that returned an
\* error from add_hash or get_hash, the number of stored level-0 hashes
\* equals the number of stored records and latest() returns the root of
\* exactly those records.
C35_AppendAtomic ==
    /\ Cardinality({p \in DOMAIN rocksdb.hashes : p.level = 0})
           = Cardinality(DOMAIN rocksdb.data)
    /\ LevelCount(filelog.hashes, 0) = Len(filelog.index)
    /\ file_latest(filelog) = log_latest(replay(FileRecords(filelog)))

\* C36. get_hash(level, index) for a position that was never added returns
\* an error value to the caller; it does not abort the program and does
\* not return a hash.
C36_GetHashAbsentErrs ==
    (op.name = "rocks.get_hash" /\ op.id \notin DOMAIN rocksdb.hashes)
        => ret.status = "error"

\* the positions a caller reads back after opening a log again
ReadBack == {Pos(l, i) : <<l, i>> \in (0..(MaxFaultLevel + 1)) \X (0..MaxFault)}

\* C37. Persistence round trip: after n appends to a file or RocksDB log,
\* closing it and opening the same directory again yields a log whose size,
\* latest() root, get(id) for every id < n and proofs for every stored
\* position equal those before closing, and whose next append returns id n.
\* (The root of a RocksDB log is a function of its size and of the hashes
\* get_hash returns, which are compared here.)
C37_ReopenRoundTrip ==
    [][op'.name = "reopen" =>
          /\ Len(filelog'.index) = Len(filelog.index)
          /\ file_latest(filelog') = file_latest(filelog)
          /\ \A id \in 0..MaxFault : file_get(filelog', id) = file_get(filelog, id)
          /\ \A p \in ReadBack : file_proofs(filelog', {p}) = file_proofs(filelog, {p})
          /\ file_append(filelog', Rec(0)).id = Len(filelog.index)
          /\ rocksdb'.size = rocksdb.size
          /\ \A id \in 0..MaxFault : rocks_get(rocksdb', id) = rocks_get(rocksdb, id)
          /\ \A p \in ReadBack :
                 rocks_get_hash(rocksdb', p.level, p.index)
                     = rocks_get_hash(rocksdb, p.level, p.index)
          /\ rocks_append(rocksdb', Rec(0)).id = rocksdb.size]_vars

\* a RocksDB log of three records and four hashes opened again
C37_Witness ==
    /\ op.name = "reopen"
    /\ rocksdb.size = 3
    /\ DOMAIN rocksdb.data = 0..2
    /\ DOMAIN rocksdb.hashes = {Pos(0, 0), Pos(0, 1), Pos(0, 2), Pos(1, 0)}
    /\ rocks_open(rocks_close(rocksdb)) = rocksdb

\* C39. In the RocksDB backend, during every append the index that
\* add_hash(level, hash) derives as tree_sizes(size)[level] - 1 equals the
\* number of hashes previously stored at that level (the index a
\* sequential per-level append would assign), tree_sizes(size) always has
\* an entry for the level, and the subtraction never underflows.
C39_AddHashIndexSequential ==
    [][(op'.name = "rocks.append" /\ op'.id = NoFault) =>
           \A c \in rocks_add_hash_calls(rocks_add(rocksdb, Rec(rocksdb.size)).log,
                                         0, hash(Rec(rocksdb.size))) :
               /\ c.status = "ok"
               /\ c.index = c.stored]_vars

\* ------------------------------------------------------------------ fork specification
\* A client of InMemoryLogClientBuilder::open(latest), built from a witness
\* saved from another log, checks records against this log.

\* the logs a saved witness may come from: record i is Rec(i) or differs
SavedLogs ==
    UNION {{[i \in 1..k |-> IF i \in S THEN OtherRec ELSE Rec(i - 1)] :
               S \in SUBSET (1..k)} : k \in 1..MaxFork}

InitFork ==
    /\ data = EmptyLog.data
    /\ hashes = EmptyLog.hashes
    /\ latest \in {log_latest(replay(s)) : s \in SavedLogs}
    /\ cache \in {NewCache, NoCache}
    /\ op = CallOp("open", 0)
    /\ ret = Ok(TRUE)
    /\ filelog = EmptyFileLog
    /\ rocksdb = EmptyRocksDBLog

SpecFork == InitFork /\ [][Next]_vars

\* the client's witness is not the one this log had at the witness's size
Forked == latest.size <= Len(data) /\ latest # PrefixWitness(latest.size)

\* C4. Fork detection: a client holding the witness of a log of size m > 0
\* that differs from the server's log in some record below m gets false for
\* every claim with id >= m once the server's log is larger than m, and keeps
\* its witness.
C4_ForkDetected ==
    (Forked /\ 0 < latest.size /\ latest.size < Len(data)) =>
        \A id \in latest.size..MaxId : \A h \in ClaimHashes(id) :
            LET o == Checked(id, h)
            IN  o.status = "ok" /\ ~o.value /\ o.latest = latest

C4_Witness ==
    /\ Forked /\ 0 < latest.size /\ latest.size < Len(data)
    /\ op.name = "check_record"
    /\ op.id >= latest.size
    /\ ret = Ok(FALSE)

\* the consistency proofs check_record would read in this state
AdvanceProofs ==
    get_proofs(cache, log, prefix_proof_positions(latest.size, Len(data)), FALSE)

\* the consistency check of the advance step would fail in this state
AdvanceRejected ==
    /\ prefix_precondition(latest.size, Len(data))
    /\ AdvanceProofs.status = "ok"
    /\ \/ ~verify_tree(latest, AdvanceProofs.map)
       \/ ~verify_tree(log_latest(log), AdvanceProofs.map)

====
